---- MODULE Spec2Model ----
(***************************************************************************)
(* Model of coach_bot.py: the users table (session store), the access     *)
(* gate, the four message handlers of the bot process, the morning_check   *)
(* scan (a second process over the same database) and the assistant        *)
(* backend as far as the program observes it (threads, messages, runs).    *)
(*                                                                         *)
(* The bot process handles one update at a time (python-telegram-bot       *)
(* dispatches updates sequentially and every backend call in a handler is  *)
(* a blocking call), so the bot has one position, `bot.pc`.  The scan is   *)
(* its own process (`--morning-check`), so its steps interleave with the   *)
(* bot's at every backend call.                                            *)
(*                                                                         *)
(* Failures: every call to the backend or to the preprocessing services    *)
(* may raise; a write to the database may raise (sqlite3.OperationalError, *)
(* the other process holds the lock).  Reads of the database and the       *)
(* transport's reply_text are taken to succeed.                            *)
(***************************************************************************)
EXTENDS Integers, Sequences, FiniteSets, TLC

\* ------------------------------------------------------------ bounds
NChats == 2
MaxTime == 2
TicksPerDay == 2
MaxRuns == 1
MaxThreads == 2
MaxReplies == 2
MaxBotRuns == 2

ChatIds == 1..NChats
TzOffsets == {-1, 0}

\* ------------------------------------------------------------ constants
NULL == -1
EmptyReply == 0
SERVICE_PASSWORD == "pw"
ArgLists == {<<>>, <<"pw">>, <<"bad">>, <<"pw", "pw">>, <<"pw", "bad">>}
Kinds == {"text", "image", "voice", "document"}

VARIABLES
    utc,        \* the wall clock, in ticks, as UTC
    tz,         \* offset of the host's local time from UTC, in ticks
    schema,     \* users table: "none", "legacy" (no last_interaction), "current"
    users,      \* rows of the users table, in rowid order
    messages,   \* backend: messages[t] is thread t's messages, oldest first
    runs,       \* backend: runs[r] is run r (thread, owner, status)
    voices,     \* which of the two files of the voice exchange in progress exist
                \* (files left by an earlier exchange carry another name and are
                \* never read or removed again, so they are not followed)
    botUp,      \* the bot process has passed init_db and polls for updates
    bot,        \* position of the handler the bot is executing
    outcome,    \* what the handler that is about to return sent (or raised)
    scan,       \* position of the morning_check process
    budget      \* user messages the backend still accepts in this exploration

vars == <<utc, tz, schema, users, messages, runs, voices, botUp, bot, outcome, scan, budget>>

\* ------------------------------------------------------------ time
\* datetime.now(): local wall clock
Local == utc + tz

\* SQLite CURRENT_TIMESTAMP: UTC
CurrentTimestamp == utc

\* datetime.fromisoformat(ts).date() / datetime.now().date()
Date(ts) == ts \div TicksPerDay

\* ------------------------------------------------------------ session store
Row(chat, thread, created, last) ==
    [chat_id |-> chat, thread_id |-> thread, created_at |-> created,
     last_interaction |-> last]

RowsOf(chat) == {i \in 1..Len(users) : users[i].chat_id = chat}

\* mutants of the gate
AlwaysSubscribed(chat) == TRUE
NeverSubscribed(chat) == FALSE

\* SELECT thread_id FROM users WHERE chat_id = ?; fetchone() is not None
IsUserSubscribed(chat) == RowsOf(chat) # {}

\* SELECT thread_id FROM users WHERE chat_id = ?; result[0] or None
GetUserThread(chat) ==
    IF RowsOf(chat) = {} THEN NULL
    ELSE users[CHOOSE i \in RowsOf(chat) : \A j \in RowsOf(chat) : i <= j].thread_id

\* mutant: the UPDATE names the wrong column
SetThreadColumn(row, ts) == [row EXCEPT !.thread_id = ts]

\* SET last_interaction = ?
SetLastInteraction(row, ts) == [row EXCEPT !.last_interaction = ts]

\* mutant: the UPDATE has no WHERE clause
UpdateAllRows(u, chat, ts) == [i \in 1..Len(u) |-> SetLastInteraction(u[i], ts)]

\* mutant: the UPDATE is never committed
LostUpdate(u, chat, ts) == u

\* UPDATE users SET last_interaction = ? WHERE chat_id = ?
UpdateRows(u, chat, ts) ==
    [i \in 1..Len(u) |->
        IF u[i].chat_id = chat THEN SetLastInteraction(u[i], ts) ELSE u[i]]

\* INSERT INTO users (chat_id, thread_id): chat_id is the PRIMARY KEY
InsertRaises(chat) == RowsOf(chat) # {}

\* mutant: the table is rewritten with the new row alone
OverwriteRows(chat, thread) ==
    <<Row(chat, thread, CurrentTimestamp, CurrentTimestamp)>>

InsertRow(chat, thread) ==
    Append(users, Row(chat, thread, CurrentTimestamp, CurrentTimestamp))

\* init_db: CREATE TABLE IF NOT EXISTS, then ALTER TABLE ADD COLUMN when the
\* column is missing.  SQLite refuses to add a column whose default is
\* CURRENT_TIMESTAMP to a table that has rows.
InitDbRaises == schema = "legacy" /\ users # <<>>

InitDbSchema == IF InitDbRaises THEN schema ELSE "current"

\* mutant: the migration drops the legacy table and creates the table anew
RecreateTable(u) == IF schema = "legacy" THEN <<>> ELSE u

\* neither CREATE TABLE IF NOT EXISTS nor ALTER TABLE ADD COLUMN writes a row
InitDbRows(u) == u

\* ------------------------------------------------------------ backend
ThreadIds == 1..Len(messages)
RunIds == 1..Len(runs)

UserMessage == [run |-> 0, text |-> EmptyReply]

Text(r, k) == r * (MaxReplies + 1) + k

\* the messages a run leaves on its thread
Replies(r, n) == [k \in 1..n |-> [run |-> r, text |-> Text(r, k)]]

Reverse(s) == [i \in 1..Len(s) |-> s[Len(s) + 1 - i]]

\* messages.list(thread_id): newest first
Listing(t) == Reverse(messages[t])

Terminal == {"completed", "failed"}

Outstanding(r) == runs[r].status = "active"

\* ------------------------------------------------------------ processes
BotIdle == [pc |-> "idle", kind |-> "none", chat |-> 0, thread |-> 0, run |-> 0]

\* rest: the fetched rows the loop has still to go through, the current one
\* first; stale, attempted, failed: the chats of this scan that were of an
\* earlier date when fetched, that got a backend call, that raised (failed
\* stays until the next scan starts); failedBefore: the chats that raised in
\* the scan before this one; done: the chats whose dispatch and UPDATE went
\* through in a scan of the date `today`
ScanIdle == [pc |-> "idle", rest |-> <<>>, today |-> 0, run |-> 0,
             stale |-> {}, attempted |-> {}, failed |-> {},
             failedBefore |-> {}, done |-> {}]

\* res: "refused", "reply", "apology", "uncaught" (the exception leaves the
\* handler), or the answer of /subscribe; error: what was raised; args: the
\* arguments of the command
NoOutcome == [kind |-> "none", chat |-> 0, res |-> "none", reply |-> EmptyReply,
              error |-> "none", args |-> <<>>]

Sent(kind, chat, res, reply) ==
    [kind |-> kind, chat |-> chat, res |-> res, reply |-> reply,
     error |-> "none", args |-> <<>>]

Raise(kind, chat, res, error) ==
    [kind |-> kind, chat |-> chat, res |-> res, reply |-> EmptyReply,
     error |-> error, args |-> <<>>]

\* a legacy table as an earlier version of the bot left it: chat 1 subscribed
LegacyRows == {<<>>, <<Row(1, 1, 0, NULL)>>}

InitStore ==
    /\ utc = 1
    /\ tz \in TzOffsets
    /\ schema \in {"none", "legacy"}
    /\ users \in (IF schema = "legacy" THEN LegacyRows ELSE {<<>>})
    /\ messages = [i \in 1..Len(users) |-> <<>>]
    /\ runs = <<>>
    /\ voices = {}
    /\ botUp = FALSE
    /\ bot = BotIdle
    /\ outcome = NoOutcome
    /\ scan = ScanIdle

Init == InitStore /\ budget = MaxRuns

\* the clock advances
Tick ==
    /\ utc < MaxTime
    /\ utc' = utc + 1
    /\ UNCHANGED <<budget, tz, schema, users, messages, runs, voices, botUp, bot, outcome, scan>>

\* main(): init_db(), then the bot polls for updates
BotStart ==
    /\ ~botUp
    /\ ~InitDbRaises
    /\ schema' = InitDbSchema
    /\ botUp' = TRUE
    /\ UNCHANGED <<budget, utc, tz, users, messages, runs, voices, bot, outcome, scan>>

\* ------------------------------------------------------------ staleness
\* mutant: <= in place of <
StaleOrToday(row, today) ==
    /\ row.last_interaction # NULL
    /\ Date(row.last_interaction) <= today

\* morning_check line 102-104: the row has a timestamp of an earlier date
Stale(row, today) ==
    /\ row.last_interaction # NULL
    /\ Date(row.last_interaction) < today

StaleIn(u, today) == {j \in 1..Len(u) : Stale(u[j], today)}

\* the handler has sent its last message (or raised) and is about to return
Returning(kind, chat) ==
    [pc |-> "sent", kind |-> kind, chat |-> chat, thread |-> 0, run |-> 0]

\* the handler returns; the bot takes the next update
BotReturn ==
    /\ bot.pc = "sent"
    /\ bot' = BotIdle
    /\ outcome' = NoOutcome
    /\ voices' = {}
    /\ UNCHANGED <<budget, utc, tz, schema, users, messages, runs, botUp, scan>>

\* ------------------------------------------------------------ /subscribe
\* mutant: any single argument is accepted
AnyPassword(args) == TRUE

\* subscribe_command line 193: exact match with the shared secret
PasswordOk(args) == args[1] = SERVICE_PASSWORD

Answer(chat, args, res, error) ==
    [kind |-> "subscribe", chat |-> chat, res |-> res, reply |-> EmptyReply,
     error |-> error, args |-> args]

\* subscribe_command, the whole handler
SubscribeCommand(chat, args) ==
    /\ botUp /\ bot.pc = "idle"
    /\ UNCHANGED <<budget, utc, tz, schema, runs, voices, botUp, scan>>
    /\ bot' = Returning("subscribe", chat)
    /\ IF Len(args) # 1
       THEN /\ outcome' = Answer(chat, args, "usage", "none")
            /\ UNCHANGED <<users, messages>>
       ELSE IF ~PasswordOk(args)
       THEN /\ outcome' = Answer(chat, args, "invalid_password", "none")
            /\ UNCHANGED <<users, messages>>
       ELSE IF IsUserSubscribed(chat)
       THEN /\ outcome' = Answer(chat, args, "already", "none")
            /\ UNCHANGED <<users, messages>>
       ELSE /\ Len(messages) < MaxThreads
            /\ \/ \* client.beta.threads.create() raises
                  /\ outcome' = Answer(chat, args, "uncaught", "backend")
                  /\ UNCHANGED <<users, messages>>
               \/ \* the thread is created, add_user raises
                  /\ messages' = Append(messages, <<>>)
                  /\ outcome' = Answer(chat, args, "uncaught", "store")
                  /\ UNCHANGED users
               \/ \* the thread is created and the row inserted
                  /\ ~InsertRaises(chat)
                  /\ messages' = Append(messages, <<>>)
                  /\ users' = InsertRow(chat, Len(messages) + 1)
                  /\ outcome' = Answer(chat, args, "subscribed", "none")

\* ------------------------------------------------------------ message handlers
\* the steps of a handler between the gate and messages.create
PreSteps(kind) ==
    CASE kind = "text" -> {"ok"}
      [] kind = "image" -> {"get_file", "ok"}
      [] kind = "voice" -> {"get_file", "download", "transcode", "transcribe", "ok"}
      [] kind = "document" -> {"get_file", "download", "upload", "ok"}

\* the files the voice handler has written when step `at` raises (or none does)
VoiceFiles(kind, at) ==
    IF kind # "voice" \/ at \in {"get_file", "download"} THEN {}
    ELSE IF at = "transcode" THEN {"ogg"}
    ELSE {"ogg", "mp3"}

\* handle_text_message has no try block; the other handlers catch Exception
Raised(kind) == IF kind = "text" THEN "uncaught" ELSE "apology"

\* an exception in the exchange the bot is executing
BotFails ==
    /\ outcome' = Raise(bot.kind, bot.chat, Raised(bot.kind), "backend")
    /\ bot' = [bot EXCEPT !.pc = "sent"]

\* a text, photo, voice or document update arrives: gate, touch, preprocessing
HandleMessage(kind, chat) ==
    /\ botUp /\ bot.pc = "idle"
    /\ UNCHANGED <<budget, utc, tz, schema, messages, runs, botUp, scan>>
    /\ IF ~IsUserSubscribed(chat)
       THEN /\ outcome' = Sent(kind, chat, "refused", EmptyReply)
            /\ bot' = Returning(kind, chat)
            /\ UNCHANGED <<users, voices>>
       ELSE /\ \/ \* update_last_interaction raises, outside every try block
                  /\ outcome' = Raise(kind, chat, "uncaught", "store")
                  /\ bot' = Returning(kind, chat)
                  /\ UNCHANGED <<users, voices>>
               \/ /\ users' = UpdateRows(users, chat, Local)
                  /\ \E at \in PreSteps(kind) :
                        /\ voices' = VoiceFiles(kind, at)
                        /\ IF at = "ok"
                           THEN /\ bot' = [pc |-> "append", kind |-> kind, chat |-> chat,
                                           thread |-> GetUserThread(chat), run |-> 0]
                                /\ UNCHANGED outcome
                           ELSE /\ outcome' = Raise(kind, chat, "apology", at)
                                /\ bot' = Returning(kind, chat)

\* client.beta.threads.messages.create(thread_id, role="user", ...)
BotAppend ==
    /\ bot.pc = "append"
    /\ UNCHANGED <<utc, tz, schema, users, runs, voices, botUp, scan>>
    /\ \/ /\ bot.thread \in ThreadIds
          /\ budget > 0
          /\ budget' = budget - 1
          /\ messages' = [messages EXCEPT ![bot.thread] = Append(@, UserMessage)]
          /\ bot' = [bot EXCEPT !.pc = "run"]
          /\ UNCHANGED outcome
       \/ /\ BotFails
          /\ UNCHANGED <<messages, budget>>

\* runs.create_and_poll: the run is created
BotRunCreate ==
    /\ bot.pc = "run"
    /\ UNCHANGED <<budget, utc, tz, schema, users, messages, voices, botUp, scan>>
    /\ \/ /\ runs' = Append(runs, [thread |-> bot.thread, owner |-> "bot", status |-> "active"])
          /\ bot' = [bot EXCEPT !.pc = "poll", !.run = Len(runs) + 1]
          /\ UNCHANGED outcome
       \/ /\ BotFails
          /\ UNCHANGED runs

\* mutant: runs.create instead of runs.create_and_poll
CreateWithoutPoll(r) == TRUE

\* runs.create_and_poll returns once the run is in a terminal state
CreateAndPollReturns(r) == runs[r].status \in Terminal

\* messages.list(thread_id=thread_id, run_id=run.id): the run's messages
ListOfRun(t, r) ==
    LET OfRun(m) == m.run = r
    IN SelectSeq(Listing(t), OfRun)

RECURSIVE LoopResponse(_, _, _)
\* for msg in thread_messages.data: if msg.run_id == run.id: response = ...
LoopResponse(msgs, r, response) ==
    IF msgs = <<>> THEN response
    ELSE LoopResponse(Tail(msgs), r,
                      IF Head(msgs).run = r THEN Head(msgs).text ELSE response)

\* os.remove(ogg_path); os.remove(mp3_path)
OwnVoiceFiles == {"ogg", "mp3"}

\* create_and_poll has returned: list the messages, extract the reply, send it
BotPollReturn ==
    /\ bot.pc = "poll"
    /\ CreateAndPollReturns(bot.run)
    /\ UNCHANGED <<budget, utc, tz, schema, users, messages, runs, botUp, scan>>
    /\ \/ \* messages.list raises
          /\ BotFails
          /\ UNCHANGED voices
       \/ /\ bot.kind = "text"
          /\ IF ListOfRun(bot.thread, bot.run) = <<>>
             THEN \* thread_messages[0]: IndexError
                  outcome' = Raise(bot.kind, bot.chat, "uncaught", "index")
             ELSE outcome' = Sent(bot.kind, bot.chat, "reply",
                                  ListOfRun(bot.thread, bot.run)[1].text)
          /\ bot' = [bot EXCEPT !.pc = "sent"]
          /\ UNCHANGED voices
       \/ /\ bot.kind # "text"
          /\ outcome' = Sent(bot.kind, bot.chat, "reply",
                             LoopResponse(Listing(bot.thread), bot.run, EmptyReply))
          /\ voices' = IF bot.kind = "voice" THEN voices \ OwnVoiceFiles ELSE voices
          /\ bot' = [bot EXCEPT !.pc = "sent"]

\* create_and_poll raises while it polls; the run stays with the backend
BotPollRaises ==
    /\ bot.pc = "poll"
    /\ BotFails
    /\ UNCHANGED <<budget, utc, tz, schema, users, messages, runs, voices, botUp, scan>>

\* ------------------------------------------------------------ backend steps
\* the backend brings a run to a terminal state and stores its messages
RunFinish(r) ==
    /\ Outstanding(r)
    /\ \E st \in Terminal, n \in 0..MaxReplies :
          /\ st = "failed" => n = 0
          /\ runs' = [runs EXCEPT ![r].status = st]
          /\ messages' = [messages EXCEPT ![runs[r].thread] = @ \o Replies(r, n)]
    /\ UNCHANGED <<budget, utc, tz, schema, users, voices, botUp, bot, outcome, scan>>

\* ------------------------------------------------------------ morning_check
\* mutant: the try block encloses the loop
AbortScan(rest) == <<>>

\* the except clause is inside the loop: go on with the next row
AfterFailure(rest) == Tail(rest)

\* SELECT chat_id, thread_id, last_interaction FROM users; fetchall()
FetchAll ==
    [j \in 1..Len(users) |->
        [chat_id |-> users[j].chat_id, thread_id |-> users[j].thread_id,
         last_interaction |-> users[j].last_interaction]]

ScanRow == Head(scan.rest)

\* an exception while the scan processes a row: logged, the row is left
ScanFails ==
    scan' = [scan EXCEPT !.pc = "loop", !.run = 0,
                         !.rest = AfterFailure(scan.rest),
                         !.attempted = @ \cup {ScanRow.chat_id},
                         !.failed = @ \cup {ScanRow.chat_id}]

\* main() --morning-check: init_db(), then SELECT all rows and take the date
ScanStart ==
    /\ scan.pc = "idle"
    /\ ~InitDbRaises
    /\ schema' = InitDbSchema
    /\ scan' = [pc |-> "loop", rest |-> FetchAll, today |-> Date(Local), run |-> 0,
                stale |-> {FetchAll[j].chat_id : j \in StaleIn(FetchAll, Date(Local))},
                attempted |-> {}, failed |-> {}, failedBefore |-> scan.failed,
                done |-> IF Date(Local) = scan.today THEN scan.done ELSE {}]
    /\ UNCHANGED <<budget, utc, tz, users, messages, runs, voices, botUp, bot, outcome>>

\* a row that is not of an earlier date is passed over
ScanSkip ==
    /\ scan.pc = "loop" /\ scan.rest # <<>>
    /\ ~Stale(ScanRow, scan.today)
    /\ scan' = [scan EXCEPT !.rest = Tail(@)]
    /\ UNCHANGED <<budget, utc, tz, schema, users, messages, runs, voices, botUp, bot, outcome>>

\* messages.create(thread_id, role="user", content=morning_message)
ScanAppend ==
    /\ scan.pc = "loop" /\ scan.rest # <<>>
    /\ Stale(ScanRow, scan.today)
    /\ UNCHANGED <<utc, tz, schema, users, runs, voices, botUp, bot, outcome>>
    /\ \/ /\ ScanRow.thread_id \in ThreadIds
          /\ budget > 0
          /\ budget' = budget - 1
          /\ messages' = [messages EXCEPT ![ScanRow.thread_id] = Append(@, UserMessage)]
          /\ scan' = [scan EXCEPT !.pc = "run", !.attempted = @ \cup {ScanRow.chat_id}]
       \/ /\ ScanFails
          /\ UNCHANGED <<messages, budget>>

\* runs.create_and_poll: the run is created
ScanRunCreate ==
    /\ scan.pc = "run"
    /\ UNCHANGED <<budget, utc, tz, schema, users, messages, voices, botUp, bot, outcome>>
    /\ \/ /\ runs' = Append(runs, [thread |-> ScanRow.thread_id, owner |-> "scan",
                                   status |-> "active"])
          /\ scan' = [scan EXCEPT !.pc = "poll", !.run = Len(runs) + 1]
       \/ /\ ScanFails
          /\ UNCHANGED runs

\* create_and_poll has returned: UPDATE last_interaction, commit
ScanPollReturn ==
    /\ scan.pc = "poll"
    /\ CreateAndPollReturns(scan.run)
    /\ UNCHANGED <<budget, utc, tz, schema, messages, runs, voices, botUp, bot, outcome>>
    /\ \/ /\ users' = UpdateRows(users, ScanRow.chat_id, Local)
          /\ scan' = [scan EXCEPT !.pc = "loop", !.run = 0, !.rest = Tail(@),
                                   !.done = @ \cup {ScanRow.chat_id}]
       \/ \* the UPDATE raises
          /\ ScanFails
          /\ UNCHANGED users

\* create_and_poll raises while it polls
ScanPollRaises ==
    /\ scan.pc = "poll"
    /\ ScanFails
    /\ UNCHANGED <<budget, utc, tz, schema, users, messages, runs, voices, botUp, bot, outcome>>

\* the loop is over: conn.close(), the process exits
ScanEnd ==
    /\ scan.pc = "loop" /\ scan.rest = <<>>
    /\ scan' = [scan EXCEPT !.pc = "idle", !.stale = {}, !.attempted = {},
                             !.failedBefore = {}]
    /\ UNCHANGED <<budget, utc, tz, schema, users, messages, runs, voices, botUp, bot, outcome>>

Next ==
    \/ Tick
    \/ BotStart
    \/ \E chat \in ChatIds, args \in ArgLists : SubscribeCommand(chat, args)
    \/ \E kind \in Kinds, chat \in ChatIds : HandleMessage(kind, chat)
    \/ BotAppend
    \/ BotRunCreate
    \/ BotPollReturn
    \/ BotPollRaises
    \/ BotReturn
    \/ \E r \in RunIds : RunFinish(r)
    \/ ScanStart
    \/ ScanSkip
    \/ ScanAppend
    \/ ScanRunCreate
    \/ ScanPollReturn
    \/ ScanPollRaises
    \/ ScanEnd

Spec == Init /\ [][Next]_vars

NextBot ==
    \/ Tick
    \/ BotStart
    \/ \E chat \in ChatIds, args \in ArgLists : SubscribeCommand(chat, args)
    \/ \E kind \in Kinds, chat \in ChatIds : HandleMessage(kind, chat)
    \/ BotAppend
    \/ BotRunCreate
    \/ BotPollReturn
    \/ BotPollRaises
    \/ BotReturn
    \/ \E r \in RunIds : RunFinish(r)

\* the bot process alone
InitBot == InitStore /\ budget = MaxBotRuns

SpecBot == InitBot /\ [][NextBot]_vars

\* the bot and the scan side by side, followed for MaxBotRuns exchanges; the
\* inbound updates are /subscribe with the secret and text messages
NextBoth ==
    \/ Tick
    \/ BotStart
    \/ \E chat \in ChatIds : SubscribeCommand(chat, <<SERVICE_PASSWORD>>)
    \/ \E chat \in ChatIds : HandleMessage("text", chat)
    \/ BotAppend
    \/ BotRunCreate
    \/ BotPollReturn
    \/ BotPollRaises
    \/ BotReturn
    \/ \E r \in RunIds : RunFinish(r)
    \/ ScanStart
    \/ ScanSkip
    \/ ScanAppend
    \/ ScanRunCreate
    \/ ScanPollReturn
    \/ ScanPollRaises
    \/ ScanEnd

SpecBoth == InitBot /\ [][NextBoth]_vars

\* ------------------------------------------------------------ touch alone
\* what a call of update_last_interaction leaves its caller with: the function
\* returns None, or the sqlite3 error of the UPDATE leaves it
Touched(chat, error) ==
    [kind |-> "touch", chat |-> chat, res |-> "returned", reply |-> EmptyReply,
     error |-> error, args |-> <<>>]

\* update_last_interaction(chat_id) called with any chat id
UpdateLastInteraction(chat) ==
    /\ botUp /\ bot.pc = "idle"
    /\ bot' = Returning("touch", chat)
    /\ \/ /\ users' = UpdateRows(users, chat, Local)
          /\ outcome' = Touched(chat, "none")
       \/ \* the UPDATE raises
          /\ outcome' = Touched(chat, "store")
          /\ UNCHANGED users
    /\ UNCHANGED <<budget, utc, tz, schema, messages, runs, voices, botUp, scan>>

NextTouch ==
    \/ Tick
    \/ BotStart
    \/ \E chat \in ChatIds : SubscribeCommand(chat, <<SERVICE_PASSWORD>>)
    \/ \E chat \in ChatIds : UpdateLastInteraction(chat)
    \/ BotReturn

\* the session store under /subscribe and calls of update_last_interaction
SpecTouch == Init /\ [][NextTouch]_vars

\* ------------------------------------------------------------ init_db alone
\* what a start of the program got from init_db: it returned, or the error
\* of the ALTER TABLE left it (main logs it and the process ends)
Initialised(error) ==
    [kind |-> "init_db", chat |-> 0, res |-> "returned", reply |-> EmptyReply,
     error |-> error, args |-> <<>>]

\* main() is started once more (a restart, or --morning-check): init_db()
InitDb ==
    /\ bot.pc = "idle"
    /\ bot' = Returning("init_db", 0)
    /\ schema' = InitDbSchema
    /\ users' = InitDbRows(users)
    /\ outcome' = Initialised(IF InitDbRaises THEN "store" ELSE "none")
    /\ UNCHANGED <<budget, utc, tz, messages, runs, voices, botUp, scan>>

NextInitDb ==
    \/ Tick
    \/ BotStart
    \/ InitDb
    \/ \E chat \in ChatIds : SubscribeCommand(chat, <<SERVICE_PASSWORD>>)
    \/ \E chat \in ChatIds : UpdateLastInteraction(chat)
    \/ BotReturn

\* the session store under starts of the program, /subscribe and touches
SpecInitDb == Init /\ [][NextInitDb]_vars

\* ------------------------------------------------------------ properties
\* a handler of `kind` for `chat` starts in this step (the gate is passed or not)
Starts(kind, chat) ==
    /\ bot.pc = "idle" /\ bot'.pc # "idle"
    /\ bot'.kind = kind /\ bot'.chat = chat

HasSession(chat) == \E i \in 1..Len(users) : users[i].chat_id = chat

\* C1: a text, image, voice or document update of a chat that has no row in
\* the users table ends at once in the refusal and changes neither the table
\* nor anything at the backend.
C1_UnsubscribedRefused ==
    [][\A kind \in Kinds, chat \in ChatIds :
          (Starts(kind, chat) /\ ~HasSession(chat)) =>
              /\ bot'.pc = "sent"
              /\ outcome'.res = "refused"
              /\ users' = users
              /\ messages' = messages /\ runs' = runs]_vars

C1_Witness ==
    /\ bot.pc = "sent" /\ outcome.res = "refused" /\ outcome.kind = "voice"
    /\ users # <<>>

\* C2: /subscribe of a chat that already has a row creates no thread at the
\* backend and leaves the table, that row's thread_id included, as it was.
C2_ResubscribeKeepsThread ==
    [][\A chat \in ChatIds :
          (Starts("subscribe", chat) /\ HasSession(chat)) =>
              /\ Len(messages') = Len(messages)
              /\ Len(users') = Len(users)
              /\ \A i \in 1..Len(users) : users'[i].thread_id = users[i].thread_id]_vars

C2_Witness ==
    /\ bot.pc = "sent" /\ outcome.res = "already"
    /\ outcome.args = <<SERVICE_PASSWORD>>

UniqueChat ==
    \A i, j \in 1..Len(users) : users[i].chat_id = users[j].chat_id => i = j

UniqueThread ==
    \A i, j \in 1..Len(users) : users[i].thread_id = users[j].thread_id => i = j

ThreadKept ==
    \A i \in 1..Len(users) :
        /\ i <= Len(users')
        /\ users'[i].chat_id = users[i].chat_id
        /\ users'[i].thread_id = users[i].thread_id

\* C3: at all times a chat_id has at most one row and no two rows hold the
\* same thread_id, and no step of the bot, of the scan or of init_db changes
\* the thread_id of a row.
C3_OneSessionOneThread ==
    /\ [](UniqueChat /\ UniqueThread)
    /\ [][ThreadKept]_vars

C3_Witness ==
    /\ Len(users) = NChats
    /\ \E i \in 1..Len(users) : users[i].last_interaction # users[i].created_at
    /\ scan.pc = "loop" /\ scan.attempted # {} /\ scan.failed = {}

\* C4: a row is inserted only by /subscribe with exactly the shared secret as
\* its one argument; /subscribe with other arguments creates no thread and
\* leaves the table unchanged; a message of a chat that has a row is never
\* refused.
C4_SecretGatesSubscriptionOnly ==
    [][/\ Len(users') # Len(users) =>
              /\ bot.pc = "idle"
              /\ outcome'.kind = "subscribe"
              /\ outcome'.args = <<SERVICE_PASSWORD>>
       /\ \A chat \in ChatIds :
              (Starts("subscribe", chat) /\ outcome'.args # <<SERVICE_PASSWORD>>) =>
                  /\ users' = users
                  /\ Len(messages') = Len(messages)
       /\ \A kind \in Kinds, chat \in ChatIds :
              (Starts(kind, chat) /\ HasSession(chat)) => outcome'.res # "refused"]_vars

C4_Witness ==
    /\ bot.pc = "append"
    /\ HasSession(bot.chat)
    /\ Len(users) = NChats

\* C5: no two runs on the same thread are outstanding at the same time.
C5_NoOverlappingRuns ==
    \A r1, r2 \in RunIds :
        (r1 # r2 /\ Outstanding(r1) /\ Outstanding(r2)) =>
            runs[r1].thread # runs[r2].thread

RunLeftNoMessage ==
    /\ bot.run # 0
    /\ runs[bot.run].status = "completed"
    /\ \A k \in 1..Len(messages[bot.thread]) : messages[bot.thread][k].run # bot.run

\* C6: when the run of an exchange has completed and the thread holds no
\* message of that run, the handler ends by sending the empty reply (unless a
\* backend call raised).
C6_EmptyReplyNotError ==
    (bot.pc = "sent" /\ bot.kind \in Kinds /\ RunLeftNoMessage
        /\ outcome.error # "backend") =>
        (outcome.res = "reply" /\ outcome.reply = EmptyReply)

\* C7: no exception leaves a message handler: every failure in an exchange
\* of a subscribed chat ends in a reply to the user.
C7_EveryFailureCaught ==
    (bot.pc = "sent" /\ bot.kind \in Kinds) => outcome.res # "uncaught"

AttemptedRow ==
    /\ scan.pc = "loop" /\ scan.rest # <<>>
    /\ scan'.attempted # scan.attempted

PassedRow ==
    /\ scan.pc = "loop" /\ scan.rest # <<>>
    /\ scan'.pc = "loop" /\ scan'.rest = Tail(scan.rest)
    /\ scan'.attempted = scan.attempted

EarlierDate(row) ==
    /\ row.last_interaction # NULL
    /\ row.last_interaction \div TicksPerDay < scan.today

DispatchedRow ==
    /\ scan.pc = "poll" /\ scan'.pc = "loop"
    /\ Head(scan.rest).chat_id \notin scan'.failed

\* C8: the scan calls the backend for a fetched row exactly when the row's
\* last_interaction is of a date before the date the scan took at its start;
\* a row it passes over gets no backend call and no write; a row whose
\* dispatch succeeded gets last_interaction = now.
C8_ScanDispatchesStaleOnly ==
    [][/\ AttemptedRow => EarlierDate(Head(scan.rest))
       /\ PassedRow =>
              /\ ~EarlierDate(Head(scan.rest))
              /\ users' = users /\ messages' = messages /\ runs' = runs
       /\ DispatchedRow =>
              \A i \in 1..Len(users') :
                  users'[i].chat_id = Head(scan.rest).chat_id =>
                      users'[i].last_interaction = Local]_vars

C8_Witness ==
    /\ scan.pc = "loop" /\ scan.rest = <<>>
    /\ Len(users) = NChats
    /\ Cardinality(scan.attempted) = 1 /\ scan.failed = {}
    /\ \E i \in 1..Len(users) :
          /\ users[i].chat_id \in scan.attempted
          /\ users[i].last_interaction = Local

RowRaised == \E chat \in ChatIds : chat \in scan'.failed /\ chat \notin scan.failed

\* C9: an exception while the scan processes a row leaves the table as it is
\* and the scan in its loop, and at the end of the loop every row that was of
\* an earlier date has been attempted.
C9_ScanIsolatesFailures ==
    /\ []((scan.pc = "loop" /\ scan.rest = <<>>) => scan.attempted = scan.stale)
    /\ [][RowRaised =>
              /\ users' = users
              /\ scan'.pc = "loop"]_vars

C9_Witness ==
    /\ scan.pc = "run"
    /\ scan.failed # {}
    /\ Head(scan.rest).chat_id \notin scan.failed

\* C10: when the voice handler returns, neither the .ogg nor the .mp3 of the
\* exchange exists.
C10_VoiceFilesRemoved ==
    (bot.pc = "sent" /\ bot.kind = "voice") => voices = {}

\* C11: the last_interaction of a row never moves backward: no step of
\* /subscribe, of a message handler or of the scan stores a value earlier
\* than the one the row holds.
C11_LastInteractionMonotone ==
    [][\A i \in 1..Len(users) :
          users'[i].last_interaction >= users[i].last_interaction]_vars

UserMessagesOn(t) == {k \in 1..Len(messages[t]) : messages[t][k] = UserMessage}

RunsOn(t) == {r \in RunIds : runs[r].thread = t}

\* the bot's handler submits a run in this step
BotSubmitsRun ==
    /\ Len(runs') = Len(runs) + 1
    /\ runs'[Len(runs')].owner = "bot"

\* messages.list has returned to the bot's handler in this step
BotListed ==
    /\ bot.pc = "poll" /\ bot'.pc = "sent"
    /\ outcome'.error # "backend"

HandlerOrder ==
    {<<"idle", "append">>, <<"idle", "sent">>, <<"append", "run">>,
     <<"append", "sent">>, <<"run", "poll">>, <<"run", "sent">>,
     <<"poll", "sent">>, <<"sent", "idle">>}

\* C12: in every handler the run is submitted only after messages.create has
\* returned for the user message (the thread then holds more user messages
\* than runs), the messages are listed only once the run is in a terminal
\* state, and the handler goes through append, run, list in this order.
C12_AppendRunListInOrder ==
    [][/\ BotSubmitsRun =>
              /\ bot.pc = "run"
              /\ runs'[Len(runs')].thread = bot.thread
              /\ Cardinality(UserMessagesOn(bot.thread)) > Cardinality(RunsOn(bot.thread))
       /\ BotListed => runs[bot.run].status \in Terminal
       /\ bot'.pc # bot.pc => <<bot.pc, bot'.pc>> \in HandlerOrder]_vars

C12_Witness ==
    /\ bot.pc = "sent" /\ bot.kind = "document"
    /\ outcome.res = "reply" /\ outcome.reply # EmptyReply
    /\ runs[bot.run].status = "completed"

\* C13: the reply a handler sends is the text of the first message, in the
\* order of messages.list, that carries the id of the run the handler
\* submitted, in the text, image, voice and document handler alike.
C13_ReplyIsFirstOfRun ==
    (bot.pc = "sent" /\ bot.kind \in Kinds /\ outcome.res = "reply"
        /\ ListOfRun(bot.thread, bot.run) # <<>>) =>
        outcome.reply = ListOfRun(bot.thread, bot.run)[1].text

\* C14: update_last_interaction on a chat_id that has no row reports the
\* error UnknownSession and leaves the table as it is; on a chat_id that has
\* a row it sets that row's last_interaction to the current time and changes
\* nothing else.
C14_TouchReportsUnknownSession ==
    [][\A chat \in ChatIds :
          Starts("touch", chat) =>
              IF ~HasSession(chat)
              THEN /\ outcome'.error = "UnknownSession"
                   /\ users' = users
              ELSE outcome'.error = "none" =>
                      /\ Len(users') = Len(users)
                      /\ \A i \in 1..Len(users) :
                            users'[i] = IF users[i].chat_id = chat
                                        THEN [users[i] EXCEPT !.last_interaction = Local]
                                        ELSE users[i]]_vars

RowsKept ==
    /\ Len(users') = Len(users)
    /\ \A i \in 1..Len(users) :
          /\ users'[i].chat_id = users[i].chat_id
          /\ users'[i].thread_id = users[i].thread_id
          /\ users'[i].created_at = users[i].created_at

\* C15: a run of init_db, on a table with or without the last_interaction
\* column, keeps every row with its chat_id, thread_id and created_at, and in
\* the state a run of init_db left a further run changes neither the schema
\* nor the rows.
C15_InitDbKeepsRows ==
    /\ [][Starts("init_db", 0) => RowsKept]_vars
    /\ []((bot.pc = "sent" /\ bot.kind = "init_db") =>
              /\ InitDbSchema = schema
              /\ InitDbRows(users) = users)

C15_Witness ==
    /\ bot.pc = "sent" /\ bot.kind = "init_db"
    /\ schema = "legacy" /\ users # <<>>

\* the row of `chat` holds the current time, every other row is as it was
TouchedOnly(chat) ==
    /\ Len(users') = Len(users)
    /\ \A i \in 1..Len(users) :
          users'[i] = IF users[i].chat_id = chat
                      THEN [users[i] EXCEPT !.last_interaction = Local]
                      ELSE users[i]

\* the exchange of the handler ends in this step, after the gate and the touch
ExchangeEnds ==
    /\ bot.pc \in {"append", "run", "poll"}
    /\ bot'.pc = "sent"

RowOfToday(row) ==
    /\ row.last_interaction # NULL
    /\ row.last_interaction \div TicksPerDay = Local \div TicksPerDay

\* C16: a text, image, voice or document update of a chat that has a row
\* sets that row's last_interaction to the current time before the handler
\* makes its first call outside the database (when the UPDATE itself raises,
\* the handler ends without any such call); the end of the exchange, failed
\* or not, leaves the table as it is; and a scan that starts while the row
\* is of the current date does not count it among the rows to dispatch.
C16_TouchBeforeBackend ==
    [][/\ \A kind \in Kinds, chat \in ChatIds :
              (Starts(kind, chat) /\ HasSession(chat)) =>
                  /\ messages' = messages /\ runs' = runs
                  /\ \/ TouchedOnly(chat)
                     \/ /\ outcome'.error = "store"
                        /\ bot'.pc = "sent"
                        /\ users' = users
       /\ ExchangeEnds => users' = users
       /\ (scan.pc = "idle" /\ scan'.pc = "loop") =>
              \A i \in 1..Len(users) :
                  RowOfToday(users[i]) => users[i].chat_id \notin scan'.stale]_vars

C16_Witness ==
    /\ bot.pc = "sent" /\ bot.kind = "voice" /\ outcome.error = "backend"
    /\ scan.pc = "loop" /\ scan.rest # <<>>
    /\ Head(scan.rest).chat_id = bot.chat
    /\ bot.chat \notin scan.stale
    /\ \E i \in 1..Len(users) :
          /\ users[i].chat_id = bot.chat
          /\ users[i].last_interaction # users[i].created_at
          /\ users[i].last_interaction = Head(scan.rest).last_interaction

\* C17: no step of /subscribe, of a message handler, of the scan or of
\* init_db removes a row: a chat_id that has a row has one in every later
\* state, and is_user_subscribed stays true for it.
C17_SessionsOnlyGrow ==
    [][\A chat \in ChatIds :
          HasSession(chat) =>
              /\ \E i \in 1..Len(users') : users'[i].chat_id = chat
              /\ IsUserSubscribed(chat)']_vars

C17_Witness ==
    /\ Len(users) = NChats
    /\ scan.pc = "loop" /\ scan.rest = <<>> /\ scan.attempted # {}
    /\ bot.pc = "sent" /\ outcome.res = "apology"

\* a scan starts in this step, after an earlier one has ended
NextScanStarts == scan.pc = "idle" /\ scan'.pc = "loop"

\* the row of `chat` is still of a date before the date of the last scan
StillBefore(chat) ==
    \E i \in 1..Len(users) :
        /\ users[i].chat_id = chat
        /\ users[i].last_interaction # NULL
        /\ users[i].last_interaction \div TicksPerDay < scan.today

\* C18 as stated: a chat whose dispatch went through in a scan is not among
\* the rows a later scan of the same date dispatches, and a chat whose
\* dispatch raised in a scan is among the rows the next scan dispatches.
C18_NoRedispatchRetryFailed ==
    [][NextScanStarts =>
          /\ \A chat \in scan.done :
                scan'.today = scan.today => chat \notin scan'.stale
          /\ \A chat \in scan.failed : chat \in scan'.stale]_vars

\* C18 amended: a chat whose dispatch went through in a scan (the UPDATE of
\* last_interaction included) is not among the rows a later scan of the same
\* date dispatches, and a chat whose dispatch raised in a scan is among the
\* rows the next scan dispatches unless a message of that chat has meanwhile
\* set its last_interaction to that scan's date or later.
C18_NoRedispatchRetryIdle ==
    [][NextScanStarts =>
          /\ \A chat \in scan.done :
                scan'.today = scan.today => chat \notin scan'.stale
          /\ \A chat \in scan.failed :
                StillBefore(chat) => chat \in scan'.stale]_vars

C18_Witness ==
    /\ scan.pc = "loop" /\ scan.attempted = {}
    /\ scan.done # {} /\ scan.done \cap scan.stale = {}
    /\ scan.failedBefore # {} /\ scan.failedBefore \subseteq scan.stale
====
